---- MODULE Spec2Model ----
(***************************************************************************)
(* Akson web client (local-storage version): class AksonApp.               *)
(*                                                                         *)
(* The state of the model is the state of one AksonApp object, the card    *)
(* objects it references, the 'akson_decks' item of localStorage, the      *)
(* parts of the study view's DOM the handlers write, and the clock.        *)
(*                                                                         *)
(* Card objects are JavaScript objects: a deck's `cards` array and the     *)
(* session's `cards` array ([...deck.cards], a shallow copy) hold          *)
(* references to the same objects.  The model keeps the objects in `heap`  *)
(* and the arrays hold references (indices into heap).                     *)
(*                                                                         *)
(* Numbers: easeFactor is kept in hundredths (2.5 is 250, 1.3 is 130).     *)
(* Instants (Date.now(), new Date().toISOString()) are readings of `now`.  *)
(* Date.now().toString() and toISOString() are injective on instants, so   *)
(* ids and timestamps are represented by the clock reading they encode.    *)
(***************************************************************************)
EXTENDS Integers, Sequences, FiniteSets, TLC

\* ---- bounds of the model ----
MaxTime == 2
MaxDecks == 2
MaxCards == 2

\* ---- values ----
Null == [null |-> TRUE]
NoCard == [free |-> TRUE]
NoId == -1
Absent == -1
\* localStorage.getItem('akson_decks') when nothing was stored, and after setItem
NoItem == [saved |-> FALSE, text |-> <<>>]
Item(text) == [saved |-> TRUE, text |-> text]
Markup == "markup"
MarkupProgress == <<-1, -1>>

Refs == 1..MaxCards
Instants == 1..MaxTime

\* texts a form field can hold; Trim is String.prototype.trim
Texts == {"", " ", "Q"}

Trim(t) == IF t = " " THEN "" ELSE t

\* what the add-card form is submitted with: question and answer
CardForms == {<<"Q", "Q">>, <<"", "Q">>, <<"Q", " ">>}

\* the values a rating button's data-rating can carry, as rateCard receives them
Again == "1"
Hard == "2"
Good == "3"
Easy == "4"
Ratings == {Again, Hard, Good, Easy}

\* what rateCard can be called with: rateCard does not look at its argument, so a
\* value no button carries is received like any other
RatingInputs == Ratings \cup {"0", "5"}

Views == {"dashboard-view", "decks-view", "study-view"}

\* `thrown` is the exception the last handler ended with, "none" when it returned
VARIABLES now, localStorage, decks, heap, currentStudySession, currentDeckId,
          currentCardIndex, currentView, dom, thrown

\* The server-backed study page: its two script variables, the parts of its
\* document the script writes, the fetch requests and responses under way,
\* and the study session the server keeps.
VARIABLES currentSession, isCardFlipped, page, requests, responses, server

pageVars == <<currentSession, isCardFlipped, page, requests, responses, server>>

appVars == <<now, localStorage, decks, heap, currentStudySession, currentDeckId,
             currentCardIndex, currentView, dom, thrown>>

\* The document viewer: the fields of `state` its flashcard functions use, the parts
\* of its document they write, the 'akson_flashcards' item of localStorage, and the
\* number of /api/flashcards requests under way.
VARIABLES state, viewerDom, viewerStorage, generating

viewerVars == <<state, viewerDom, viewerStorage, generating>>

\* The calls of the study view's functions that have been entered and have not
\* returned, innermost last; empty between two handlers.
VARIABLE stack

\* What renderDashboard has written into the dashboard's statistics.  No handler
\* reads it; the handlers of the study view are followed without it.
VARIABLE dashboard

outsideApp == <<pageVars, viewerVars, stack, dashboard>>
outsidePage == <<appVars, viewerVars, stack, dashboard>>
outsideViewer == <<appVars, pageVars, stack, dashboard>>

vars == <<appVars, pageVars, viewerVars, stack, dashboard>>

\* ---- helpers ----
Max(a, b) == IF a >= b THEN a ELSE b

\* Array.prototype.find(d => d.id === id): index of the first match, 0 if none
FindDeck(ds, id) ==
    IF \E i \in 1..Len(ds) : ds[i].id = id
    THEN CHOOSE i \in 1..Len(ds) : ds[i].id = id /\ \A j \in 1..(i-1) : ds[j].id # id
    ELSE 0

\* the references the decks hold, deck by deck
RECURSIVE DeckRefs(_)
DeckRefs(ds) == IF ds = <<>> THEN <<>> ELSE ds[1].cards \o DeckRefs(Tail(ds))

InSeq(x, q) == \E i \in 1..Len(q) : q[i] = x

\* the references reachable from the decks and from the session, each once: the
\* decks' cards first, then the session's cards that no deck holds any more
LiveRefs(ds, sess) ==
    DeckRefs(ds) \o (IF sess = Null THEN <<>>
                     ELSE SelectSeq(sess.cards, LAMBDA r : ~InSeq(r, DeckRefs(ds))))

\* An object's address carries no information.  After every handler the live
\* objects are renumbered in the order LiveRefs lists them, and objects that no
\* array references any more (garbage) leave the heap.
Collect(s) ==
    LET live == LiveRefs(s.decks, s.currentStudySession)
        Rank(r) == CHOOSE i \in 1..Len(live) : live[i] = r
        Renamed(cards) == [j \in 1..Len(cards) |-> Rank(cards[j])]
    IN [s EXCEPT
          !.heap = [r \in Refs |-> IF r <= Len(live) THEN s.heap[live[r]] ELSE NoCard],
          !.decks = [i \in 1..Len(s.decks) |->
                        [s.decks[i] EXCEPT !.cards = Renamed(@)]],
          !.currentStudySession =
              IF @ = Null THEN @ ELSE [@ EXCEPT !.cards = Renamed(@)]]

FreeRefs(hp) == {r \in Refs : hp[r] = NoCard}

\* the object AksonApp is, as one record
This ==
    [decks |-> decks, heap |-> heap, localStorage |-> localStorage,
     currentStudySession |-> currentStudySession, currentDeckId |-> currentDeckId,
     currentCardIndex |-> currentCardIndex, currentView |-> currentView, dom |-> dom]

\* the state a handler leaves
Becomes(s) ==
    /\ decks' = Collect(s).decks
    /\ heap' = Collect(s).heap
    /\ localStorage' = s.localStorage
    /\ currentStudySession' = Collect(s).currentStudySession
    /\ currentDeckId' = s.currentDeckId
    /\ currentCardIndex' = s.currentCardIndex
    /\ currentView' = s.currentView
    /\ dom' = s.dom
    /\ now' = now
    /\ thrown' = "none"
    /\ UNCHANGED outsideApp

\* the handler throws before it has written anything
Throws(exception) ==
    /\ thrown' = exception
    /\ UNCHANGED <<now, localStorage, decks, heap, currentStudySession, currentDeckId,
                   currentCardIndex, currentView, dom>>
    /\ UNCHANGED outsideApp

\* JSON.stringify(this.decks): the decks by value, cards included
Stringify(ds, hp) ==
    [i \in 1..Len(ds) |->
        [ds[i] EXCEPT !.cards = [j \in 1..Len(ds[i].cards) |-> hp[ds[i].cards[j]]]]]

saveDecks(s) == [s EXCEPT !.localStorage = Item(Stringify(s.decks, s.heap))]

\* number of cards stored before deck i
RECURSIVE CardsBefore(_, _)
CardsBefore(stored, i) ==
    IF i <= 1 THEN 0 ELSE CardsBefore(stored, i - 1) + Len(stored[i - 1].cards)

\* JSON.parse(saved): fresh objects, one per stored card
ParseDecks(stored) ==
    [i \in 1..Len(stored) |->
        [stored[i] EXCEPT !.cards =
            [j \in 1..Len(stored[i].cards) |-> CardsBefore(stored, i) + j]]]

ParseHeap(stored) ==
    [r \in Refs |->
        IF \E i \in 1..Len(stored) : \E j \in 1..Len(stored[i].cards) :
               CardsBefore(stored, i) + j = r
        THEN LET i == CHOOSE i \in 1..Len(stored) : \E j \in 1..Len(stored[i].cards) :
                          CardsBefore(stored, i) + j = r
             IN stored[i].cards[r - CardsBefore(stored, i)]
        ELSE NoCard]

loadDecks(stored) == IF ~stored.saved THEN <<>> ELSE ParseDecks(stored.text)

loadHeap(stored) == IF ~stored.saved THEN [r \in Refs |-> NoCard] ELSE ParseHeap(stored.text)

InitialDom ==
    [questionText |-> Markup, progressText |-> MarkupProgress,
     answerContainer |-> "", showAnswerBtn |-> "", ratingButtons |-> ""]

\* ---- the study view ----
nextCard(s) ==
    IF s.currentStudySession = Null
       \/ s.currentStudySession.currentIndex >= Len(s.currentStudySession.cards)
    THEN [s EXCEPT !.dom.questionText = "Study session completed!",
                   !.dom.answerContainer = "none",
                   !.dom.showAnswerBtn = "none",
                   !.dom.ratingButtons = "none"]
    ELSE LET sess == s.currentStudySession
             card == s.heap[sess.cards[sess.currentIndex + 1]]
         IN [s EXCEPT !.dom = [questionText |-> card.question,
                               answerContainer |-> "none",
                               showAnswerBtn |-> "block",
                               ratingButtons |-> "none",
                               progressText |-> <<sess.currentIndex, Len(sess.cards)>>]]

RECURSIVE switchView(_, _), renderStudyView(_), startStudySession(_, _)

\* startStudySession that carries the cursor of the session it replaces over
startStudySessionKeepsCursor(s, deckId) ==
    LET i == FindDeck(s.decks, deckId) IN
    IF i = 0 \/ Len(s.decks[i].cards) = 0 THEN s
    ELSE LET s1 == [s EXCEPT !.currentDeckId = deckId,
                             !.currentCardIndex = 0,
                             !.currentStudySession =
                                 [deckId |-> deckId, cards |-> s.decks[i].cards,
                                  currentIndex |->
                                      IF s.currentStudySession = Null THEN 0
                                      ELSE s.currentStudySession.currentIndex]]
         IN nextCard(switchView(s1, "study-view"))

startStudySession(s, deckId) ==
    LET i == FindDeck(s.decks, deckId) IN
    IF i = 0 \/ Len(s.decks[i].cards) = 0 THEN s
    ELSE LET s1 == [s EXCEPT !.currentDeckId = deckId,
                             !.currentCardIndex = 0,
                             !.currentStudySession =
                                 [deckId |-> deckId, cards |-> s.decks[i].cards,
                                  currentIndex |-> 0]]
         IN nextCard(switchView(s1, "study-view"))

renderStudyView(s) ==
    IF s.currentDeckId = NoId
    THEN [s EXCEPT !.dom.questionText = "Select a deck to begin studying",
                   !.dom.progressText = <<0, 0>>]
    ELSE LET i == FindDeck(s.decks, s.currentDeckId) IN
         IF i = 0 \/ Len(s.decks[i].cards) = 0
         THEN [s EXCEPT !.dom.questionText =
                            "This deck has no cards. Add some cards to start studying.",
                        !.dom.progressText = <<0, 0>>]
         ELSE LET s1 == IF s.currentStudySession = Null
                        THEN startStudySession(s, s.currentDeckId)
                        ELSE s
              IN nextCard(s1)

switchView(s, viewName) ==
    LET s1 == [s EXCEPT !.currentView = viewName] IN
    IF viewName = "study-view" THEN renderStudyView(s1) ELSE s1

showAnswer(s) ==
    [s EXCEPT !.dom.answerContainer = "block",
              !.dom.showAnswerBtn = "none",
              !.dom.ratingButtons = "flex"]

\* ---- decks and cards ----
NewDeck(name, description) ==
    [id |-> now, name |-> Trim(name), description |-> Trim(description),
     createdAt |-> now, cards |-> <<>>]

\* NewCard with the ease factor seeded at 0.25 instead of 2.5
NewCardLowEase(question, answer) ==
    [id |-> now, question |-> Trim(question), answer |-> Trim(answer),
     createdAt |-> now, nextReview |-> now,
     interval |-> 0, easeFactor |-> 25, repetitions |-> 0,
     lastReviewed |-> Absent, rated |-> FALSE]

\* a card as handleAddCard builds it.  lastReviewed is not a property of the new
\* object (Absent).  `rated` is a history field, not a field of the program: it
\* records that rateCard has reviewed the card, and travels with the card.
NewCard(question, answer) ==
    [id |-> now, question |-> Trim(question), answer |-> Trim(answer),
     createdAt |-> now, nextReview |-> now,
     interval |-> 0, easeFactor |-> 250, repetitions |-> 0,
     lastReviewed |-> Absent, rated |-> FALSE]

\* Review without the assignment to card.lastReviewed
ReviewNoStamp(card, rating, at) == [card EXCEPT !.rated = TRUE]

\* what rateCard does to the card it reviews: it stamps lastReviewed and leaves
\* interval, easeFactor, repetitions and nextReview as they are
Review(card, rating, at) == [card EXCEPT !.lastReviewed = at, !.rated = TRUE]

\* ---- the server-backed study page: values ----
\* parseInt(data-rating) of the clicked button; 5 stands for a button whose
\* attribute is not one of the four ratings
PageRatings == 1..4
PageRatingInputs == 1..5

\* a card as the server sends it: {front, back}; the i-th card of the deck
CardData(i) == [front |-> i, back |-> i]
NoCardData == CardData(0)

\* {current, total} and {total, again, hard, good, easy}
Progress(current, total) == [current |-> current, total |-> total]
NoProgress == Progress(Absent, Absent)
Stats(total, again, hard, good, easy) ==
    [total |-> total, again |-> again, hard |-> hard, good |-> good, easy |-> easy]
NoStats == Stats(Absent, Absent, Absent, Absent, Absent)

\* innerHTML of #card-content: which template was written and what it interpolates
Content(kind, card, stats) == [kind |-> kind, card |-> card, stats |-> stats]
Loading == Content("loading", NoCardData, NoStats)
ErrorStarting == Content("error", NoCardData, NoStats)
CardFront(card) == Content("front", card, NoStats)
CardBoth(card) == Content("both", card, NoStats)
SessionComplete(stats) == Content("complete", NoCardData, stats)

\* the JSON body of a response; a field the server left out reads as its No-value
Data(success, complete, session_id, card, progress, stats, error) ==
    [success |-> success, complete |-> complete, session_id |-> session_id,
     card |-> card, progress |-> progress, stats |-> stats, error |-> error]
ErrorData == Data(FALSE, FALSE, NoId, NoCardData, NoProgress, NoStats, "Unknown error")

\* fetch(url, {body}): the call that sent it, the session in the url, the rating
Request(call, session_id, rating) ==
    [call |-> call, session_id |-> session_id, rating |-> rating]
\* what fetch settles with: resolved with a JSON body, or rejected
Resolved(call, data) == [call |-> call, ok |-> TRUE, data |-> data]
Rejected(call) == [call |-> call, ok |-> FALSE, data |-> ErrorData]

\* the document before the script has written it: "template" is whatever the page's
\* HTML has there
Document ==
    [location |-> "study", loaded |-> FALSE, cardContent |-> Content("template", NoCardData, NoStats),
     flipCardBtn |-> "template", flipCardBtnDisplay |-> "template",
     ratingButtons |-> "template", btnRatingDisabled |-> FALSE,
     progressFill |-> NoProgress, progressText |-> NoProgress, alerted |-> FALSE]

\* the server's session: cursor and the four counters
NewSession(id) == [session_id |-> id, cursor |-> 0, again |-> 0, hard |-> 0, good |-> 0, easy |-> 0]
NoServerSession == [session_id |-> NoId, cursor |-> 0, again |-> 0, hard |-> 0, good |-> 0, easy |-> 0]

\* window.DECK_ID names a deck of n cards on the server; the script has been read
PageOpened(n) ==
    /\ currentSession = Null
    /\ isCardFlipped = FALSE
    /\ page = Document
    /\ requests = {}
    /\ responses = {}
    /\ server = [cards |-> n, session |-> NoServerSession]

\* no study page is open
PageClosed ==
    /\ currentSession = Null
    /\ isCardFlipped = FALSE
    /\ page = [Document EXCEPT !.location = "/decks"]
    /\ requests = {}
    /\ responses = {}
    /\ server = [cards |-> 0, session |-> NoServerSession]

\* ---- the document viewer's flashcard modal: values ----
MaxFlashcards == 3
MaxGenerated == 2
MaxGenerating == 2

\* the k-th flashcard the generator has produced
Flashcard(k) == [question |-> k, answer |-> k]

\* `state` as the script declares it (the fields the flashcard functions use)
InitialState == [flashcards |-> <<>>, currentCardIndex |-> 0, isCardFlipped |-> FALSE]

\* the parts of the viewer's document the flashcard functions write; "template" is
\* whatever the page's HTML has there
ViewerDocument(hidden) ==
    [flashcardModalHidden |-> hidden, cardFrontText |-> 0, cardBackText |-> 0,
     cardProgress |-> <<0, 0>>, prevCardDisabled |-> "template",
     nextCardDisabled |-> "template", studyCardFlipped |-> FALSE,
     flashcardCount |-> 0, studyBtnDisabled |-> TRUE, loading |-> FALSE, toast |-> ""]

\* updateFlashcardCount, called by renderFlashcardsList
updateFlashcardCount(st, d) ==
    [d EXCEPT !.flashcardCount = Len(st.flashcards),
              !.studyBtnDisabled = (Len(st.flashcards) = 0)]

\* loadFromStorage('flashcards', [])
loadFlashcards(stored) == IF stored.saved THEN stored.text ELSE <<>>

\* init(): the state after the viewer's script has run
ViewerLoaded(stored, hidden) ==
    /\ state = [InitialState EXCEPT !.flashcards = loadFlashcards(stored)]
    /\ viewerDom = updateFlashcardCount([InitialState EXCEPT !.flashcards = loadFlashcards(stored)],
                                        ViewerDocument(hidden))
    /\ viewerStorage = stored
    /\ generating = 0

\* no document viewer is open
ViewerClosed == ViewerLoaded(NoItem, TRUE)

\* ---- the dashboard: values ----
\* total-decks, cards-studied and retention-rate (the number before the % sign)
Dashboard(totalDecks, cardsStudied, retentionRate) ==
    [totalDecks |-> totalDecks, cardsStudied |-> cardsStudied,
     retentionRate |-> retentionRate]

\* what renderDashboard shows when there are no decks
EmptyDashboard == Dashboard(0, 0, 0)

\* ---- the handlers ----
AppInit ==
    /\ now = 1
    /\ localStorage = NoItem
    /\ decks = loadDecks(NoItem)
    /\ heap = loadHeap(NoItem)
    /\ currentStudySession = Null
    /\ currentCardIndex = 0
    /\ currentDeckId = NoId
    /\ currentView = "dashboard-view"
    /\ dom = InitialDom
    /\ thrown = "none"

\* the application is open and no study page is
Init ==
    /\ AppInit
    /\ PageClosed
    /\ ViewerClosed
    /\ stack = <<>>
    /\ dashboard = EmptyDashboard

\* time passes between two handlers
Tick ==
    /\ now < MaxTime
    /\ now' = now + 1
    /\ UNCHANGED <<localStorage, decks, heap, currentStudySession, currentDeckId,
                   currentCardIndex, currentView, dom, thrown>>
    /\ UNCHANGED outsideApp

\* the page is loaded again: new AksonApp()
Reload ==
    /\ decks' = loadDecks(localStorage)
    /\ heap' = loadHeap(localStorage)
    /\ currentStudySession' = Null
    /\ currentCardIndex' = 0
    /\ currentDeckId' = NoId
    /\ currentView' = "dashboard-view"
    /\ dom' = InitialDom
    /\ thrown' = "none"
    /\ UNCHANGED <<now, localStorage>>
    /\ UNCHANGED outsideApp

handleAddDeck(name, description) ==
    /\ Len(decks) < MaxDecks
    /\ IF Trim(name) = "" THEN Becomes(This)
       ELSE Becomes(saveDecks([This EXCEPT !.decks = Append(decks, NewDeck(name, description))]))

\* handleAddCard when the session's cards are the deck's own array (cards:
\* deck.cards, no copy): the push reaches the session too
handleAddCardAliased(deckId, question, answer) ==
    /\ FreeRefs(heap) # {}
    /\ IF Trim(question) = "" \/ Trim(answer) = "" THEN Becomes(This)
       ELSE LET i == FindDeck(decks, deckId) IN
            IF i = 0 THEN Becomes(This)
            ELSE LET r == CHOOSE r \in FreeRefs(heap) : \A q \in FreeRefs(heap) : r <= q
                     aliased == /\ currentStudySession # Null
                                /\ currentStudySession.cards = decks[i].cards
                     s1 == [This EXCEPT !.heap[r] = NewCard(question, answer),
                                        !.decks[i].cards = Append(@, r),
                                        !.currentStudySession =
                                            IF aliased THEN [@ EXCEPT !.cards = Append(@, r)]
                                            ELSE @]
                 IN Becomes(saveDecks(s1))

handleAddCard(deckId, question, answer) ==
    /\ FreeRefs(heap) # {}
    /\ IF Trim(question) = "" \/ Trim(answer) = "" THEN Becomes(This)
       ELSE LET i == FindDeck(decks, deckId) IN
            IF i = 0 THEN Becomes(This)
            ELSE LET r == CHOOSE r \in FreeRefs(heap) : \A q \in FreeRefs(heap) : r <= q
                     s1 == [This EXCEPT !.heap[r] = NewCard(question, answer),
                                        !.decks[i].cards = Append(@, r)]
                 IN Becomes(saveDecks(s1))

deleteDeck(deckId, confirmed) ==
    /\ deckId \in Instants
    /\ IF confirmed
       THEN Becomes(saveDecks([This EXCEPT !.decks = SelectSeq(decks, LAMBDA d : d.id # deckId)]))
       ELSE Becomes(This)

SwitchView(viewName) ==
    /\ viewName \in Views
    /\ Becomes(switchView(This, viewName))

\* the Study button of a rendered deck, or a call with the id of a deck since deleted
StartStudySession(deckId) ==
    /\ deckId \in Instants
    /\ Becomes(startStudySession(This, deckId))

\* the Show Answer button; the handler reads no state
ShowAnswer ==
    /\ dom' = showAnswer(This).dom
    /\ thrown' = "none"
    /\ UNCHANGED <<now, localStorage, decks, heap, currentStudySession, currentDeckId,
                   currentCardIndex, currentView>>
    /\ UNCHANGED outsideApp

\* rateCard that advances the cursor before it reads the card
rateCardAdvanceFirst(rating) ==
    /\ rating \in RatingInputs
    /\ IF currentStudySession = Null THEN Becomes(This)
       ELSE LET sess == currentStudySession IN
            IF sess.currentIndex >= Len(sess.cards)
            THEN /\ currentStudySession' = [sess EXCEPT !.currentIndex = @ + 1]
                 /\ thrown' = "TypeError"
                 /\ UNCHANGED <<now, localStorage, decks, heap, currentDeckId,
                                currentCardIndex, currentView, dom>>
                 /\ UNCHANGED outsideApp
            ELSE LET r == sess.cards[sess.currentIndex + 1]
                     s1 == [This EXCEPT !.heap[r] = Review(@, rating, now),
                                        !.currentStudySession.currentIndex = @ + 1]
                 IN Becomes(nextCard(s1))

\* rateCard(rating): the rating is received and not read
rateCard(rating) ==
    /\ rating \in RatingInputs
    /\ IF currentStudySession = Null THEN Becomes(This)
       ELSE LET sess == currentStudySession IN
            IF sess.currentIndex >= Len(sess.cards)
            THEN \* card is undefined: the assignment to card.lastReviewed throws
                 Throws("TypeError")
            ELSE LET r == sess.cards[sess.currentIndex + 1]
                     s1 == [This EXCEPT !.heap[r] = Review(@, rating, now),
                                        !.currentStudySession.currentIndex = @ + 1]
                 IN Becomes(nextCard(s1))

Next ==
    \/ Tick
    \/ Reload
    \/ \E name \in Texts : handleAddDeck(name, "")
    \/ \E deckId \in Instants, form \in CardForms :
          handleAddCard(deckId, form[1], form[2])
    \/ \E deckId \in Instants, confirmed \in BOOLEAN : deleteDeck(deckId, confirmed)
    \/ \E viewName \in Views : SwitchView(viewName)
    \/ \E deckId \in Instants : StartStudySession(deckId)
    \/ ShowAnswer
    \/ \E rating \in RatingInputs : rateCard(rating)

Spec == Init /\ [][Next]_vars

\* ---- the server-backed study page: the script ----
PageThis == [currentSession |-> currentSession, isCardFlipped |-> isCardFlipped, page |-> page]

\* the state a function of the page's script leaves
PageBecomes(s) ==
    /\ currentSession' = s.currentSession
    /\ isCardFlipped' = s.isCardFlipped
    /\ page' = s.page

\* the page's handlers run while the study page is the document shown
Listening == page.location = "study" /\ page.loaded

displayCard(s, card) ==
    [s EXCEPT !.page.cardContent = CardFront(card),
              !.isCardFlipped = FALSE,
              !.page.flipCardBtn = "Show Answer",
              !.page.ratingButtons = "none"]

\* the width of #progress-fill is kept as the fraction current/total it is computed from
updateProgress(s, progress) ==
    [s EXCEPT !.page.progressFill = IF progress.total > 0 THEN progress ELSE Progress(0, 1),
              !.page.progressText = progress]

showSessionComplete(s, stats) ==
    [s EXCEPT !.page.cardContent = SessionComplete(stats),
              !.page.ratingButtons = "none",
              !.page.flipCardBtnDisplay = "none"]

\* DOMContentLoaded: startStudySession(window.DECK_ID) and the listeners
DOMContentLoaded ==
    /\ page.location = "study"
    /\ ~page.loaded
    /\ page' = [page EXCEPT !.loaded = TRUE, !.cardContent = Loading]
    /\ requests' = requests \cup {Request("start", NoId, Absent)}
    /\ UNCHANGED <<currentSession, isCardFlipped, responses, server, outsidePage>>

\* startStudySession's fetch settles: its .then and .catch
StartSettled ==
    \E m \in responses :
        /\ Listening
        /\ m.call = "start"
        /\ responses' = responses \ {m}
        /\ IF m.ok /\ m.data.success
           THEN PageBecomes(updateProgress(displayCard([PageThis EXCEPT !.currentSession = m.data],
                                                       m.data.card),
                                           m.data.progress))
           ELSE PageBecomes([PageThis EXCEPT !.page.cardContent = ErrorStarting])
        /\ UNCHANGED <<requests, server, outsidePage>>

\* the flip button
flipCard ==
    /\ Listening
    /\ IF currentSession = Null THEN PageBecomes(PageThis)
       ELSE LET card == currentSession.card IN
            IF ~isCardFlipped
            THEN PageBecomes([PageThis EXCEPT !.page.cardContent = CardBoth(card),
                                              !.page.flipCardBtn = "Hide Answer",
                                              !.isCardFlipped = TRUE])
            ELSE PageBecomes([PageThis EXCEPT !.page.cardContent = CardFront(card),
                                              !.page.flipCardBtn = "Show Answer",
                                              !.isCardFlipped = FALSE])
    /\ UNCHANGED <<requests, responses, server, outsidePage>>

\* answerCard that submits "good" whatever was clicked
answerCardSendsGood(rating) ==
    /\ Listening
    /\ ~page.btnRatingDisabled
    /\ rating \in PageRatingInputs
    /\ IF currentSession = Null
       THEN UNCHANGED <<page, requests>>
       ELSE /\ page' = [page EXCEPT !.btnRatingDisabled = TRUE]
            /\ requests' = requests \cup {Request("answer", currentSession.session_id, 3)}
    /\ UNCHANGED <<currentSession, isCardFlipped, responses, server, outsidePage>>

\* answerCard without the loop that disables the rating buttons
answerCardNoDisable(rating) ==
    /\ Listening
    /\ ~page.btnRatingDisabled
    /\ rating \in PageRatingInputs
    /\ IF currentSession = Null
       THEN UNCHANGED <<page, requests>>
       ELSE /\ page' = page
            /\ requests' = requests \cup {Request("answer", currentSession.session_id, rating)}
    /\ UNCHANGED <<currentSession, isCardFlipped, responses, server, outsidePage>>

\* a click on a rating button (a disabled button gets no click): answerCard(rating)
answerCard(rating) ==
    /\ Listening
    /\ ~page.btnRatingDisabled
    /\ rating \in PageRatingInputs
    /\ IF currentSession = Null
       THEN UNCHANGED <<page, requests>>
       ELSE /\ page' = [page EXCEPT !.btnRatingDisabled = TRUE]
            /\ requests' = requests \cup {Request("answer", currentSession.session_id, rating)}
    /\ UNCHANGED <<currentSession, isCardFlipped, responses, server, outsidePage>>

\* AnswerSettled with `currentSession = data` placed before the test of data.success
AnswerSettledAdoptsData ==
    \E m \in responses :
        /\ Listening
        /\ m.call = "answer"
        /\ responses' = responses \ {m}
        /\ IF m.ok /\ m.data.success
           THEN IF m.data.complete
                THEN PageBecomes(showSessionComplete(PageThis, m.data.stats))
                ELSE PageBecomes([updateProgress(displayCard([PageThis EXCEPT !.currentSession = m.data],
                                                             m.data.card),
                                                 m.data.progress)
                                  EXCEPT !.page.btnRatingDisabled = FALSE])
           ELSE PageBecomes([PageThis EXCEPT !.currentSession = IF m.ok THEN m.data ELSE @,
                                             !.page.alerted = TRUE,
                                             !.page.btnRatingDisabled = FALSE])
        /\ UNCHANGED <<requests, server, outsidePage>>

\* answerCard's fetch settles: its .then and .catch
AnswerSettled ==
    \E m \in responses :
        /\ Listening
        /\ m.call = "answer"
        /\ responses' = responses \ {m}
        /\ IF m.ok /\ m.data.success
           THEN IF m.data.complete
                THEN PageBecomes(showSessionComplete(PageThis, m.data.stats))
                ELSE PageBecomes([updateProgress(displayCard([PageThis EXCEPT !.currentSession = m.data],
                                                             m.data.card),
                                                 m.data.progress)
                                  EXCEPT !.page.btnRatingDisabled = FALSE])
           ELSE PageBecomes([PageThis EXCEPT !.page.alerted = TRUE,
                                             !.page.btnRatingDisabled = FALSE])
        /\ UNCHANGED <<requests, server, outsidePage>>

\* the End Session button and its confirm()
endSession(confirmed) ==
    /\ Listening
    /\ confirmed \in BOOLEAN
    /\ page' = IF confirmed THEN [page EXCEPT !.location = "/decks"] ELSE page
    /\ UNCHANGED <<currentSession, isCardFlipped, requests, responses, server, outsidePage>>

\* a fetch fails: the request does not arrive, or its response does not
NetworkError ==
    /\ \/ \E m \in requests :
             /\ requests' = requests \ {m}
             /\ responses' = responses \cup {Rejected(m.call)}
       \/ \E m \in responses :
             /\ m.ok
             /\ requests' = requests
             /\ responses' = (responses \ {m}) \cup {Rejected(m.call)}
    /\ UNCHANGED <<currentSession, isCardFlipped, page, server, outsidePage>>

\* ---- the server-backed study page: the server's study session ----
Refused(call, error) == Resolved(call, [ErrorData EXCEPT !.error = error])

\* the counters of a session as the completion response reports them
StatsOf(sess, total) == Stats(total, sess.again, sess.hard, sess.good, sess.easy)

\* rate: the counter of the rating goes up by one, the cursor moves on
Rated(sess, rating) ==
    [sess EXCEPT !.cursor = @ + 1,
                 !.again = IF rating = 1 THEN @ + 1 ELSE @,
                 !.hard = IF rating = 2 THEN @ + 1 ELSE @,
                 !.good = IF rating = 3 THEN @ + 1 ELSE @,
                 !.easy = IF rating = 4 THEN @ + 1 ELSE @]

\* POST /api/decks/{deckId}/study/start
study_start ==
    \E m \in requests :
        /\ m.call = "start"
        /\ requests' = requests \ {m}
        /\ IF server.cards = 0
           THEN /\ responses' = responses \cup {Refused("start", "EmptyDeck")}
                /\ server' = server
           ELSE /\ server' = [server EXCEPT !.session = NewSession(1)]
                /\ responses' = responses \cup
                       {Resolved("start", [ErrorData EXCEPT !.success = TRUE, !.session_id = 1,
                                               !.card = CardData(1),
                                               !.progress = Progress(0, server.cards)])}
        /\ UNCHANGED <<currentSession, isCardFlipped, page, outsidePage>>

\* POST /api/study/{session_id}/answer {rating}
study_answer ==
    \E m \in requests :
        /\ m.call = "answer"
        /\ requests' = requests \ {m}
        /\ LET sess == server.session
               after == Rated(sess, m.rating)
           IN IF sess.session_id = NoId \/ m.session_id # sess.session_id
              THEN /\ responses' = responses \cup {Refused("answer", "SessionNotStarted")}
                   /\ server' = server
              ELSE IF sess.cursor >= server.cards
              THEN /\ responses' = responses \cup {Refused("answer", "SessionComplete")}
                   /\ server' = server
              ELSE IF m.rating \notin PageRatings
              THEN /\ responses' = responses \cup {Refused("answer", "InvalidRating")}
                   /\ server' = server
              ELSE /\ server' = [server EXCEPT !.session = after]
                   /\ responses' = responses \cup
                       {Resolved("answer",
                           IF after.cursor = server.cards
                           THEN [ErrorData EXCEPT !.success = TRUE, !.complete = TRUE,
                                     !.session_id = sess.session_id,
                                     !.progress = Progress(after.cursor, server.cards),
                                     !.stats = StatsOf(after, server.cards)]
                           ELSE [ErrorData EXCEPT !.success = TRUE,
                                     !.session_id = sess.session_id,
                                     !.card = CardData(after.cursor + 1),
                                     !.progress = Progress(after.cursor, server.cards)])}
        /\ UNCHANGED <<currentSession, isCardFlipped, page, outsidePage>>

StudyInit ==
    /\ AppInit
    /\ \E n \in 0..MaxCards : PageOpened(n)
    /\ ViewerClosed
    /\ stack = <<>>
    /\ dashboard = EmptyDashboard

NextStudy ==
    \/ DOMContentLoaded
    \/ StartSettled
    \/ flipCard
    \/ \E rating \in PageRatingInputs : answerCard(rating)
    \/ AnswerSettled
    \/ \E confirmed \in BOOLEAN : endSession(confirmed)
    \/ NetworkError
    \/ study_start
    \/ study_answer

SpecStudy == StudyInit /\ [][NextStudy]_vars

\* ---- the document viewer's flashcard modal: the script ----
ViewerThis == [state |-> state, dom |-> viewerDom]

\* the state a function of the viewer's script leaves
ViewerBecomes(v) ==
    /\ state' = v.state
    /\ viewerDom' = v.dom

updateStudyCard(v) ==
    LET st == v.state
        i == st.currentCardIndex
    IN IF i < 0 \/ i >= Len(st.flashcards) THEN v
       ELSE [v EXCEPT !.dom.cardFrontText = st.flashcards[i + 1].question,
                      !.dom.cardBackText = st.flashcards[i + 1].answer,
                      !.dom.cardProgress = <<i + 1, Len(st.flashcards)>>,
                      !.dom.prevCardDisabled = (i = 0),
                      !.dom.nextCardDisabled = (i = Len(st.flashcards) - 1),
                      !.state.isCardFlipped = FALSE,
                      !.dom.studyCardFlipped = FALSE]

\* the Study button
openFlashcardModal ==
    /\ IF Len(state.flashcards) = 0
       THEN ViewerBecomes([ViewerThis EXCEPT !.dom.toast = "No flashcards to study"])
       ELSE ViewerBecomes(updateStudyCard([ViewerThis EXCEPT !.state.currentCardIndex = 0,
                                                             !.state.isCardFlipped = FALSE,
                                                             !.dom.flashcardModalHidden = FALSE]))
    /\ UNCHANGED <<viewerStorage, generating, outsideViewer>>

closeFlashcardModal ==
    /\ viewerDom' = [viewerDom EXCEPT !.flashcardModalHidden = TRUE]
    /\ UNCHANGED <<state, viewerStorage, generating, outsideViewer>>

\* a click on the card, or the space key
flipStudyCard ==
    /\ ViewerBecomes([ViewerThis EXCEPT !.state.isCardFlipped = ~@,
                                        !.dom.studyCardFlipped = ~state.isCardFlipped])
    /\ UNCHANGED <<viewerStorage, generating, outsideViewer>>

\* nextCard without the test of the index against the list's length
viewer_nextCardUnbounded ==
    /\ ViewerBecomes(updateStudyCard([ViewerThis EXCEPT !.state.currentCardIndex = @ + 1]))
    /\ UNCHANGED <<viewerStorage, generating, outsideViewer>>

\* nextCard of the viewer: the Next button, or the right arrow key
viewer_nextCard ==
    /\ IF state.currentCardIndex < Len(state.flashcards) - 1
       THEN ViewerBecomes(updateStudyCard([ViewerThis EXCEPT !.state.currentCardIndex = @ + 1]))
       ELSE ViewerBecomes(ViewerThis)
    /\ UNCHANGED <<viewerStorage, generating, outsideViewer>>

\* prevCard: the Previous button, or the left arrow key
prevCard ==
    /\ IF state.currentCardIndex > 0
       THEN ViewerBecomes(updateStudyCard([ViewerThis EXCEPT !.state.currentCardIndex = @ - 1]))
       ELSE ViewerBecomes(ViewerThis)
    /\ UNCHANGED <<viewerStorage, generating, outsideViewer>>

\* generateFlashcards up to its fetch; hasText: state.documentText || state.lastSummary
generateFlashcards(hasText) ==
    /\ hasText \in BOOLEAN
    /\ generating < MaxGenerating
    /\ IF ~hasText
       THEN /\ viewerDom' = [viewerDom EXCEPT !.toast = "No content for flashcards"]
            /\ generating' = generating
       ELSE /\ viewerDom' = [viewerDom EXCEPT !.loading = TRUE]
            /\ generating' = generating + 1
    /\ UNCHANGED <<state, viewerStorage, outsideViewer>>

\* generateFlashcards after its fetch: n cards came back (ok), or the fetch failed
generateFlashcardsSettled(ok, n) ==
    /\ generating > 0
    /\ ok \in BOOLEAN
    /\ n \in 0..MaxGenerated
    /\ Len(state.flashcards) + n <= MaxFlashcards
    /\ generating' = generating - 1
    /\ IF ok /\ n > 0
       THEN LET cards == [j \in 1..n |-> Flashcard(Len(state.flashcards) + j)]
                st == [state EXCEPT !.flashcards = @ \o cards]
            IN /\ state' = st
               /\ viewerStorage' = Item(st.flashcards)
               /\ viewerDom' = [updateFlashcardCount(st, viewerDom)
                                   EXCEPT !.toast = "Generated flashcards", !.loading = FALSE]
       ELSE /\ viewerDom' = [viewerDom EXCEPT !.loading = FALSE,
                                !.toast = IF ok THEN @ ELSE "Failed to generate flashcards"]
            /\ UNCHANGED <<state, viewerStorage>>
    /\ UNCHANGED outsideViewer

\* the viewer is loaded again: init()
ViewerReload ==
    /\ state' = [InitialState EXCEPT !.flashcards = loadFlashcards(viewerStorage)]
    /\ viewerDom' = updateFlashcardCount([InitialState EXCEPT !.flashcards = loadFlashcards(viewerStorage)],
                                         ViewerDocument(TRUE))
    /\ generating' = 0
    /\ UNCHANGED <<viewerStorage, outsideViewer>>

ViewerInit ==
    /\ AppInit
    /\ PageClosed
    /\ ViewerLoaded(NoItem, TRUE)
    /\ stack = <<>>
    /\ dashboard = EmptyDashboard

NextViewer ==
    \/ openFlashcardModal
    \/ closeFlashcardModal
    \/ flipStudyCard
    \/ viewer_nextCard
    \/ prevCard
    \/ \E hasText \in BOOLEAN : generateFlashcards(hasText)
    \/ \E ok \in BOOLEAN, n \in 0..MaxGenerated : generateFlashcardsSettled(ok, n)
    \/ ViewerReload

SpecViewer == ViewerInit /\ [][NextViewer]_vars

\* ---- the study view's functions, call by call ----
\* startStudySession, switchView and renderStudyView call one another.  Here each
\* runs in steps between its calls, and `stack` holds the calls under way.
Frame(fn, pc, arg) == [fn |-> fn, pc |-> pc, arg |-> arg]

Top == stack[Len(stack)]

\* the function running returns
Return == SubSeq(stack, 1, Len(stack) - 1)

\* the function running calls fn(arg) and goes on at pc when that returns
Call(pc, fn, arg) == Append([stack EXCEPT ![Len(stack)].pc = pc], Frame(fn, 1, arg))

\* the fields of the application a step leaves
AppBecomes(s) ==
    /\ decks' = Collect(s).decks
    /\ heap' = Collect(s).heap
    /\ localStorage' = s.localStorage
    /\ currentStudySession' = Collect(s).currentStudySession
    /\ currentDeckId' = s.currentDeckId
    /\ currentCardIndex' = s.currentCardIndex
    /\ currentView' = s.currentView
    /\ dom' = s.dom
    /\ now' = now
    /\ thrown' = "none"

\* a handler calls startStudySession(deckId): the Study button of a deck
EnterStartStudySession(deckId) ==
    /\ stack = <<>>
    /\ deckId \in Instants
    /\ stack' = <<Frame("startStudySession", 1, deckId)>>
    /\ UNCHANGED <<appVars, pageVars, viewerVars, dashboard>>

\* a handler calls switchView(viewName): a navigation button
EnterSwitchView(viewName) ==
    /\ stack = <<>>
    /\ viewName \in Views
    /\ stack' = <<Frame("switchView", 1, viewName)>>
    /\ UNCHANGED <<appVars, pageVars, viewerVars, dashboard>>

\* startStudySession: up to its call of switchView, then nextCard and return
startStudySession_step ==
    /\ stack # <<>>
    /\ Top.fn = "startStudySession"
    /\ IF Top.pc = 1
       THEN LET i == FindDeck(decks, Top.arg) IN
            IF i = 0 \/ Len(decks[i].cards) = 0
            THEN /\ stack' = Return
                 /\ UNCHANGED appVars
            ELSE /\ AppBecomes([This EXCEPT !.currentDeckId = Top.arg,
                                            !.currentCardIndex = 0,
                                            !.currentStudySession =
                                                [deckId |-> Top.arg, cards |-> decks[i].cards,
                                                 currentIndex |-> 0]])
                 /\ stack' = Call(2, "switchView", "study-view")
       ELSE /\ AppBecomes(nextCard(This))
            /\ stack' = Return
    /\ UNCHANGED <<pageVars, viewerVars, dashboard>>

\* switchView: sets the view, then renders it
switchView_step ==
    /\ stack # <<>>
    /\ Top.fn = "switchView"
    /\ IF Top.pc = 1
       THEN /\ AppBecomes([This EXCEPT !.currentView = Top.arg])
            /\ stack' = IF Top.arg = "study-view"
                        THEN Call(2, "renderStudyView", Top.arg)
                        ELSE Return
       ELSE /\ stack' = Return
            /\ UNCHANGED appVars
    /\ UNCHANGED <<pageVars, viewerVars, dashboard>>

\* renderStudyView that starts a session whether or not there is one
renderStudyView_stepAlwaysStarts ==
    /\ stack # <<>>
    /\ Top.fn = "renderStudyView"
    /\ IF Top.pc = 1
       THEN IF currentDeckId = NoId
            THEN /\ AppBecomes([This EXCEPT !.dom.questionText = "Select a deck to begin studying",
                                            !.dom.progressText = <<0, 0>>])
                 /\ stack' = Return
            ELSE LET i == FindDeck(decks, currentDeckId) IN
                 IF i = 0 \/ Len(decks[i].cards) = 0
                 THEN /\ AppBecomes([This EXCEPT !.dom.questionText =
                                        "This deck has no cards. Add some cards to start studying.",
                                                 !.dom.progressText = <<0, 0>>])
                      /\ stack' = Return
                 ELSE /\ stack' = Call(2, "startStudySession", currentDeckId)
                      /\ UNCHANGED appVars
       ELSE /\ AppBecomes(nextCard(This))
            /\ stack' = Return
    /\ UNCHANGED <<pageVars, viewerVars, dashboard>>

\* renderStudyView: its early returns, its call of startStudySession when there is
\* no session, then nextCard and return
renderStudyView_step ==
    /\ stack # <<>>
    /\ Top.fn = "renderStudyView"
    /\ IF Top.pc = 1
       THEN IF currentDeckId = NoId
            THEN /\ AppBecomes([This EXCEPT !.dom.questionText = "Select a deck to begin studying",
                                            !.dom.progressText = <<0, 0>>])
                 /\ stack' = Return
            ELSE LET i == FindDeck(decks, currentDeckId) IN
                 IF i = 0 \/ Len(decks[i].cards) = 0
                 THEN /\ AppBecomes([This EXCEPT !.dom.questionText =
                                        "This deck has no cards. Add some cards to start studying.",
                                                 !.dom.progressText = <<0, 0>>])
                      /\ stack' = Return
                 ELSE IF currentStudySession = Null
                 THEN /\ stack' = Call(2, "startStudySession", currentDeckId)
                      /\ UNCHANGED appVars
                 ELSE /\ AppBecomes(nextCard(This))
                      /\ stack' = Return
       ELSE /\ AppBecomes(nextCard(This))
            /\ stack' = Return
    /\ UNCHANGED <<pageVars, viewerVars, dashboard>>

\* a function under way takes its next step
Step ==
    \/ startStudySession_step
    \/ switchView_step
    \/ renderStudyView_step

\* between two handlers: the handlers that call none of the three functions
Handler ==
    /\ stack = <<>>
    /\ \/ Tick
       \/ Reload
       \/ \E name \in Texts : handleAddDeck(name, "")
       \/ \E deckId \in Instants, form \in CardForms :
             handleAddCard(deckId, form[1], form[2])
       \/ \E deckId \in Instants, confirmed \in BOOLEAN : deleteDeck(deckId, confirmed)
       \/ ShowAnswer
       \/ \E rating \in RatingInputs : rateCard(rating)

NextCalls ==
    \/ Handler
    \/ \E deckId \in Instants : EnterStartStudySession(deckId)
    \/ \E viewName \in Views : EnterSwitchView(viewName)
    \/ Step

\* a handler runs to its end before the next event is taken
SpecCalls == Init /\ [][NextCalls]_vars /\ WF_vars(Step)

TypeOK ==
    /\ now \in Instants
    /\ Len(decks) <= MaxDecks
    /\ currentView \in Views
    /\ thrown \in {"none", "TypeError"}

\* ---- what the properties below talk about ----
Completed == "Study session completed!"

\* rateCard reviews a card: a session exists and its cursor is on a card
RateApplies ==
    /\ currentStudySession # Null
    /\ currentStudySession.currentIndex < Len(currentStudySession.cards)

\* the card object under the session's cursor
CurRef == currentStudySession.cards[currentStudySession.currentIndex + 1]

Cards == {r \in Refs : heap[r] # NoCard}

\* a step in which rateCard(rating) reviews the card under the cursor
Rates(rating) == RateApplies /\ rateCard(rating)

\* Math.round of a non-negative quotient n / d
Round(n, d) == (2 * n + d) \div (2 * d)

\* `n` days after an instant, instants being milliseconds
Days(n) == n * 86400000

\* C1: a session of N cards is completed after exactly N ratings, and after the
\* k-th rating the progress shown is (k, N), for every k up to N.
C1_ProgressAfterEachRating ==
    [][\A rating \in Ratings : Rates(rating) =>
          LET k == currentStudySession.currentIndex + 1
              N == Len(currentStudySession.cards)
          IN /\ currentStudySession'.currentIndex = k
             /\ Len(currentStudySession'.cards) = N
             /\ (dom'.questionText = Completed) <=> (k = N)
             /\ dom'.progressText = <<k, N>>]_vars

\* C2: every card, from its creation on and after any ratings, has
\* easeFactor >= 1.3, interval >= 0 and repetitions >= 0.
C2_SchedulingInvariant ==
    \A r \in Cards : /\ heap[r].easeFactor >= 130
                     /\ heap[r].interval >= 0
                     /\ heap[r].repetitions >= 0

\* a card that was rated, some time after it was created
C2_Witness ==
    \E r \in Cards : heap[r].rated /\ heap[r].lastReviewed > heap[r].createdAt

\* C3: rating a card "again" sets its repetitions to 0 and its nextReview to the
\* instant of the review.
C3_AgainResets ==
    [][Rates(Again) => /\ heap'[CurRef].repetitions = 0
                       /\ heap'[CurRef].nextReview = now]_vars

\* C4: rating a card "again" sets its interval to 0 and its easeFactor to
\* max(1.3, easeFactor - 0.2).
C4_AgainEase ==
    [][Rates(Again) => /\ heap'[CurRef].interval = 0
                       /\ heap'[CurRef].easeFactor = Max(130, heap[CurRef].easeFactor - 20)]_vars

\* C5: a card with repetitions 0 rated "good" gets interval 1, rated "easy" gets
\* interval 4, and repetitions 1 in both cases.
C5_FirstIntervals ==
    [][/\ (Rates(Good) /\ heap[CurRef].repetitions = 0) =>
              (heap'[CurRef].interval = 1 /\ heap'[CurRef].repetitions = 1)
       /\ (Rates(Easy) /\ heap[CurRef].repetitions = 0) =>
              (heap'[CurRef].interval = 4 /\ heap'[CurRef].repetitions = 1)]_vars

\* C6: rating "good" adds 1 to repetitions, keeps easeFactor, and sets interval to
\* 1 when the new repetitions is 1 and to round(interval * easeFactor) otherwise.
C6_Good ==
    [][Rates(Good) =>
          LET c == heap[CurRef]
              d == heap'[CurRef]
          IN /\ d.repetitions = c.repetitions + 1
             /\ d.easeFactor = c.easeFactor
             /\ d.interval = IF d.repetitions = 1 THEN 1
                             ELSE Round(c.interval * c.easeFactor, 100)]_vars

\* C7: rating "hard" adds 1 to repetitions, sets easeFactor to
\* max(1.3, easeFactor - 0.15) and interval to max(1, round(interval * 1.2)).
C7_Hard ==
    [][Rates(Hard) =>
          LET c == heap[CurRef]
              d == heap'[CurRef]
          IN /\ d.repetitions = c.repetitions + 1
             /\ d.easeFactor = Max(130, c.easeFactor - 15)
             /\ d.interval = Max(1, Round(c.interval * 12, 10))
             /\ d.interval >= 1]_vars

\* C8: rating "easy" adds 1 to repetitions, raises easeFactor by 0.15 and sets
\* interval to 4 when the new repetitions is 1 and to
\* round(interval * easeFactor * 1.3) otherwise (easeFactor as just raised).
C8_Easy ==
    [][Rates(Easy) =>
          LET c == heap[CurRef]
              d == heap'[CurRef]
          IN /\ d.repetitions = c.repetitions + 1
             /\ d.easeFactor = c.easeFactor + 15
             /\ d.interval = IF d.repetitions = 1 THEN 4
                             ELSE Round(c.interval * d.easeFactor * 13, 1000)]_vars

\* lastReviewed is absent on every card, in memory and in storage, that rateCard
\* has not reviewed
NeverRatedAbsent ==
    /\ \A r \in Cards : ~heap[r].rated => heap[r].lastReviewed = Absent
    /\ \A i \in 1..Len(localStorage.text) : \A j \in 1..Len(localStorage.text[i].cards) :
          LET c == localStorage.text[i].cards[j]
          IN ~c.rated => c.lastReviewed = Absent

\* C9: every accepted rating, whatever its value, sets the rated card's
\* lastReviewed to the instant of the rating and leaves lastReviewed of every
\* other card as it is; lastReviewed is absent on a card never rated.
C9_LastReviewed ==
    [][/\ \A rating \in Ratings : Rates(rating) =>
             /\ heap'[CurRef].lastReviewed = now
             /\ \A q \in Cards \ {CurRef} :
                   heap'[q] # NoCard => heap'[q].lastReviewed = heap[q].lastReviewed
       /\ NeverRatedAbsent
       /\ NeverRatedAbsent']_vars

\* the session's first card has just been rated, at a later instant than the one
\* before it was created, and the second card has never been rated
C9_Witness ==
    /\ currentStudySession # Null
    /\ Len(currentStudySession.cards) = 2
    /\ currentStudySession.currentIndex = 1
    /\ heap[currentStudySession.cards[1]].lastReviewed = now
    /\ heap[currentStudySession.cards[1]].createdAt < now
    /\ ~heap[currentStudySession.cards[2]].rated
    /\ heap[currentStudySession.cards[2]].lastReviewed = Absent

\* C10: after every rating the card's nextReview is the rating instant plus the
\* card's new interval in days (the rating instant itself for "again"); a card
\* not rated yet has the nextReview it was created with, the instant of its creation.
C10_NextReviewDerived ==
    [][/\ \A rating \in Ratings : Rates(rating) =>
             heap'[CurRef].nextReview =
                 IF rating = Again THEN now ELSE now + Days(heap'[CurRef].interval)
       /\ \A r \in Refs : (heap'[r] # NoCard /\ ~heap'[r].rated) =>
             heap'[r].nextReview = heap'[r].createdAt]_vars

\* ---- the phases of a session, as the study view shows them ----
\* the question of the card under the cursor is showing (as nextCard leaves the view)
QuestionShowing ==
    /\ RateApplies
    /\ dom.answerContainer = "none"
    /\ dom.ratingButtons = "none"

\* the answer of the card under the cursor is showing (as showAnswer leaves the view)
AnswerShowing ==
    /\ RateApplies
    /\ dom.answerContainer = "block"
    /\ dom.ratingButtons = "flex"

\* the deck startStudySession(deckId) finds, 0 if there is none
DeckOf(deckId) == FindDeck(decks, deckId)

\* the session's cards, by value
SessionCards ==
    [j \in 1..Len(currentStudySession.cards) |-> heap[currentStudySession.cards[j]]]

\* C12: rate() while the question is showing fails with WrongPhase and leaves the
\* cursor and the card's scheduling state unchanged.
C12_RateNeedsAnswer ==
    [][\A rating \in Ratings : (QuestionShowing /\ rateCard(rating)) =>
          /\ thrown' = "WrongPhase"
          /\ UNCHANGED <<currentStudySession, heap>>]_vars

\* C13: starting a session on a deck with zero cards fails with EmptyDeck, creates
\* no session and leaves the state as it is.
C13_EmptyDeckFails ==
    [][\A deckId \in Instants :
          (StartStudySession(deckId) /\ DeckOf(deckId) # 0
                /\ Len(decks[DeckOf(deckId)].cards) = 0) =>
             /\ thrown' = "EmptyDeck"
             /\ UNCHANGED <<currentStudySession, currentDeckId, decks, heap>>]_vars

\* C14: a rating outside {1,2,3,4} is rejected with InvalidRating; it neither
\* advances the cursor nor changes the card.
C14_InvalidRatingRejected ==
    [][\A rating \in RatingInputs \ Ratings : (RateApplies /\ rateCard(rating)) =>
          /\ thrown' = "InvalidRating"
          /\ UNCHANGED <<currentStudySession, heap>>]_vars

\* C15: while a session is in progress, adding a card to a deck or deleting a deck
\* changes neither the session's cards, nor their order and number, nor its cursor;
\* the session is completed when its own cards have been rated.
C15_SessionSnapshot ==
    [][/\ (/\ currentStudySession # Null
           /\ \/ \E deckId \in Instants, form \in CardForms :
                    handleAddCard(deckId, form[1], form[2])
              \/ \E deckId \in Instants, confirmed \in BOOLEAN :
                    deleteDeck(deckId, confirmed)) =>
             /\ currentStudySession' # Null
             /\ currentStudySession'.currentIndex = currentStudySession.currentIndex
             /\ currentStudySession'.deckId = currentStudySession.deckId
             /\ SessionCards' = SessionCards
       /\ \A rating \in RatingInputs : Rates(rating) =>
             /\ SessionCards' = [SessionCards EXCEPT
                                    ![currentStudySession.currentIndex + 1] =
                                        Review(@, rating, now)]
             /\ (dom'.questionText = Completed) <=>
                    (currentStudySession.currentIndex + 1 = Len(SessionCards))]_vars

\* a session completed on its one card although its deck has got a second card since
C15_Witness ==
    /\ currentStudySession # Null
    /\ DeckOf(currentStudySession.deckId) # 0
    /\ Len(decks[DeckOf(currentStudySession.deckId)].cards) > Len(currentStudySession.cards)
    /\ currentStudySession.currentIndex = Len(currentStudySession.cards)
    /\ heap[currentStudySession.cards[1]].rated
    /\ dom.questionText = Completed

\* C16: an operation called where it does not apply (rate with no session, rate
\* after the last card, start on an unknown or empty deck, add card with blank text
\* or unknown deck, add deck with blank name) changes neither the decks, nor the
\* stored decks, nor the session, nor the cursor, nor any card.
C16_NoPartialEffect ==
    [][(\/ \E rating \in RatingInputs : rateCard(rating) /\ ~RateApplies
        \/ \E deckId \in Instants :
              /\ StartStudySession(deckId)
              /\ (DeckOf(deckId) = 0 \/ Len(decks[DeckOf(deckId)].cards) = 0)
        \/ \E deckId \in Instants, form \in CardForms :
              /\ handleAddCard(deckId, form[1], form[2])
              /\ (Trim(form[1]) = "" \/ Trim(form[2]) = "" \/ DeckOf(deckId) = 0)
        \/ \E name \in Texts : handleAddDeck(name, "") /\ Trim(name) = "")
       => UNCHANGED <<decks, heap, localStorage, currentStudySession, currentDeckId,
                      currentCardIndex>>]_vars

\* rateCard was called after the last card of a session and threw
C16_Witness ==
    /\ thrown = "TypeError"
    /\ currentStudySession # Null
    /\ currentStudySession.currentIndex = Len(currentStudySession.cards)

\* C17: revealAnswer takes effect only while the question is showing, where it
\* moves the session to showing the answer; it changes nothing but the phase, and
\* while the answer is showing it does not bring the question phase back.
C17_RevealAnswer ==
    [][ShowAnswer =>
          /\ UNCHANGED <<decks, heap, localStorage, currentStudySession, currentDeckId,
                         currentCardIndex>>
          /\ QuestionShowing => AnswerShowing'
          /\ AnswerShowing => AnswerShowing'
          /\ ~QuestionShowing => dom' = dom]_vars

\* C19: there is one session at most; a start on a deck with cards replaces the
\* session in progress by one on that deck with cursor 0, and showAnswer and rate
\* act on the session that is current and on no other.
C19_OneSession ==
    [][/\ \A deckId \in Instants :
             (StartStudySession(deckId) /\ DeckOf(deckId) # 0
                   /\ Len(decks[DeckOf(deckId)].cards) > 0) =>
                /\ currentStudySession' # Null
                /\ currentStudySession'.deckId = deckId
                /\ currentStudySession'.currentIndex = 0
                /\ currentStudySession'.cards = decks'[DeckOf(deckId)].cards
                /\ currentDeckId' = deckId
       /\ \A rating \in RatingInputs : Rates(rating) =>
             currentStudySession' = [currentStudySession EXCEPT !.currentIndex = @ + 1]
       /\ ShowAnswer => currentStudySession' = currentStudySession]_vars

\* a session at cursor 0 although a card outside it was rated at this instant and
\* the stamp is not stored: the session that rated it has been replaced
C19_Witness ==
    /\ currentStudySession # Null
    /\ currentStudySession.currentIndex = 0
    /\ \E r \in Cards : /\ heap[r].rated
                        /\ heap[r].lastReviewed = now
                        /\ ~InSeq(r, currentStudySession.cards)
    /\ \A i \in 1..Len(localStorage.text) : \A j \in 1..Len(localStorage.text[i].cards) :
          ~localStorage.text[i].cards[j].rated

\* C20: once its last card has been rated no session remains, and entering the
\* study view again for the same deck begins a session at cursor 0.
C20_SessionDiscarded ==
    [][/\ \A rating \in RatingInputs :
             (Rates(rating) /\ currentStudySession.currentIndex + 1
                                  = Len(currentStudySession.cards)) =>
                currentStudySession' = Null
       /\ (/\ SwitchView("study-view")
           /\ currentStudySession # Null
           /\ ~RateApplies
           /\ DeckOf(currentDeckId) # 0
           /\ Len(decks[DeckOf(currentDeckId)].cards) > 0) =>
             /\ currentStudySession' # Null
             /\ currentStudySession'.currentIndex = 0
             /\ dom'.questionText # Completed]_vars

\* ---- the counters of the server-backed study session ----
Counter(sess, rating) ==
    CASE rating = 1 -> sess.again
      [] rating = 2 -> sess.hard
      [] rating = 3 -> sess.good
      [] rating = 4 -> sess.easy

CounterSum(c) == c.again + c.hard + c.good + c.easy

DeckIdsDistinct(ds) == \A i, j \in 1..Len(ds) : i # j => ds[i].id # ds[j].id

CardIdsDistinct(ds, hp) ==
    LET refs == DeckRefs(ds)
    IN \A p, q \in 1..Len(refs) : p # q => hp[refs[p]].id # hp[refs[q]].id

\* every deck and every card of before is still there, in place, under its id
IdsKept ==
    /\ Len(decks') >= Len(decks)
    /\ \A i \in 1..Len(decks) :
          /\ decks'[i].id = decks[i].id
          /\ Len(decks'[i].cards) >= Len(decks[i].cards)
          /\ \A j \in 1..Len(decks[i].cards) :
                heap'[decks'[i].cards[j]].id = heap[decks[i].cards[j]].id

\* C21: after any sequence of deck creations and card additions, two of them at the
\* same clock reading included, the deck ids are pairwise distinct and the card ids
\* are pairwise distinct, and no operation changes the id of a deck or card it keeps.
C21_IdsUniqueImmutable ==
    [][/\ DeckIdsDistinct(decks') /\ CardIdsDistinct(decks', heap')
       /\ Len(decks') >= Len(decks) => IdsKept]_vars

\* the decks by value without the i-th
WithoutDeck(i) ==
    LET all == Stringify(decks, heap)
    IN [k \in 1..(Len(all) - 1) |-> IF k < i THEN all[k] ELSE all[k + 1]]

\* C22: a confirmed deleteDeck(id) removes the deck of that id with all its cards from
\* the in-memory decks and from storage and leaves every other deck and its cards as
\* they were; a declined confirmation changes nothing.
C22_DeleteDeckFrame ==
    [][\A deckId \in Instants :
         /\ deleteDeck(deckId, TRUE)
               => \A i \in 1..Len(decks) :
                      decks[i].id = deckId
                         => /\ Stringify(decks', heap') = WithoutDeck(i)
                            /\ localStorage' = Item(WithoutDeck(i))
         /\ deleteDeck(deckId, FALSE) /\ ~deleteDeck(deckId, TRUE)
               => UNCHANGED <<decks, heap, localStorage, currentStudySession>>]_vars

\* C23: the session cursor stays within 0..cards.length, and rateCard reads a card only
\* at an index below cards.length: a rating after the last card touches no undefined
\* card and does not move the cursor.
C23_CursorInRange ==
    [][/\ currentStudySession' # Null
             => /\ currentStudySession'.currentIndex >= 0
                /\ currentStudySession'.currentIndex <= Len(currentStudySession'.cards)
       /\ \A rating \in RatingInputs :
             rateCard(rating) /\ currentStudySession # Null
                => /\ thrown' # "TypeError"
                   /\ currentStudySession.currentIndex >= Len(currentStudySession.cards)
                         => UNCHANGED <<currentStudySession, heap>>]_vars

\* what loadDecks would restore from storage, by value
Restored(stored) == Stringify(loadDecks(stored), loadHeap(stored))

\* C26: after every completed operation (add deck, add card, delete deck, rate card)
\* the decks stored under 'akson_decks' equal the in-memory decks, so that loading
\* them restores the same decks and the same review state, lastReviewed included.
C26_StorageInSync ==
    [][(\/ \E name \in Texts : handleAddDeck(name, "")
        \/ \E deckId \in Instants, form \in CardForms : handleAddCard(deckId, form[1], form[2])
        \/ \E deckId \in Instants, confirmed \in BOOLEAN : deleteDeck(deckId, confirmed)
        \/ \E rating \in RatingInputs : rateCard(rating) /\ thrown' = "none")
       => Restored(localStorage') = Stringify(decks', heap')]_vars

\* ---- answer submissions of the server-backed study page ----
\* the answer submissions under way: sent and not yet settled
AnswersInFlight(reqs, resps) ==
    Cardinality({m \in reqs : m.call = "answer"}) + Cardinality({m \in resps : m.call = "answer"})

\* the response a handler has just taken
Taken == responses \ responses'

\* a card is displayed with its front only, as displayCard leaves it
FrontShown ==
    /\ currentSession # Null
    /\ ~isCardFlipped
    /\ page.cardContent = CardFront(currentSession.card)

\* C24: every displayed card can be rated once its answer is shown: after displayCard
\* followed by flipCard the rating buttons are visible and enabled.
C24_RatableOnceFlipped ==
    [][Listening /\ FrontShown /\ flipCard
          => /\ page'.cardContent = CardBoth(currentSession.card)
             /\ page'.ratingButtons # "none"
             /\ ~page'.btnRatingDisabled]_vars

\* C25: at most one answer submission is in flight at a time: the rating buttons are
\* disabled from the moment answerCard sends a request until its outcome is handled,
\* they are enabled again after every outcome except session completion, and no
\* click sends a second answer while one is unsettled.
C25_OneSubmission ==
    [][/\ AnswersInFlight(requests', responses') <= 1
       /\ AnswersInFlight(requests', responses') = 1 => page'.btnRatingDisabled
       /\ \A rating \in PageRatingInputs :
             answerCard(rating) /\ currentSession # Null
                => /\ AnswersInFlight(requests, responses) = 0
                   /\ AnswersInFlight(requests', responses') = 1
                   /\ page'.btnRatingDisabled
       /\ AnswerSettled
             => page'.btnRatingDisabled =
                    (\E m \in Taken : m.ok /\ m.data.success /\ m.data.complete)
       /\ page'.btnRatingDisabled # page.btnRatingDisabled
             => AnswerSettled \/ \E rating \in PageRatingInputs : answerCard(rating)]_vars

\* the answer to the second card is under way: the buttons were enabled again after the
\* first answer and are disabled again
C25_Witness ==
    /\ currentSession # Null
    /\ currentSession.progress.current = 1
    /\ page.btnRatingDisabled
    /\ \E m \in responses : m.call = "answer" /\ m.ok

\* C27: when an answer submission fails (success false, or a network error)
\* currentSession is unchanged and the card can be rated again; the current card and
\* the progress change only on a successful non-complete response; flipCard and
\* answerCard do nothing while no session has been started.
C27_FailureKeepsSession ==
    [][/\ AnswerSettled /\ (\E m \in Taken : ~(m.ok /\ m.data.success))
             => /\ currentSession' = currentSession
                /\ ~page'.btnRatingDisabled
                /\ page'.progressText = page.progressText
                /\ page'.cardContent = page.cardContent
       /\ currentSession' # currentSession \/ page'.progressText # page.progressText
             => \E m \in Taken :
                    /\ m.ok /\ m.data.success /\ ~m.data.complete
                    /\ currentSession' = m.data
                    /\ page'.progressText = m.data.progress
       /\ currentSession = Null /\ (flipCard \/ \E rating \in PageRatingInputs : answerCard(rating))
             => UNCHANGED vars]_vars

\* an answer failed, its failure was handled, and the same card is being rated again
C27_Witness ==
    /\ page.alerted
    /\ currentSession # Null
    /\ page.btnRatingDisabled
    /\ \E m \in requests : m.call = "answer" /\ m.session_id = currentSession.session_id

\* ---- the flashcard modal's index ----
\* C28: whenever the flashcard list is non-empty, 0 <= currentCardIndex <=
\* flashcards.length - 1 after any sequence of openFlashcardModal, nextCard, prevCard,
\* flipStudyCard and generateFlashcards; nextCard on the last card and prevCard on
\* the first leave the index unchanged; openFlashcardModal with an empty list does
\* not open the modal or change the index.
C28_ModalIndexInRange ==
    [][/\ Len(state'.flashcards) > 0
             => /\ 0 <= state'.currentCardIndex
                /\ state'.currentCardIndex <= Len(state'.flashcards) - 1
       /\ viewer_nextCard /\ state.currentCardIndex = Len(state.flashcards) - 1
             => state'.currentCardIndex = state.currentCardIndex
       /\ prevCard /\ state.currentCardIndex = 0
             => state'.currentCardIndex = state.currentCardIndex
       /\ openFlashcardModal /\ Len(state.flashcards) = 0
             => /\ viewerDom'.flashcardModalHidden = viewerDom.flashcardModalHidden
                /\ state' = state]_vars

\* the modal is open on the last card of a list that grew while it was open: the
\* progress it shows was written for a shorter list
C28_Witness ==
    /\ ~viewerDom.flashcardModalHidden
    /\ Len(state.flashcards) = MaxFlashcards
    /\ state.currentCardIndex = MaxFlashcards - 1
    /\ viewerDom.cardProgress = <<MaxFlashcards, MaxFlashcards>>

\* ---- the dashboard's statistics ----
MaxRepetitions == 2

\* easeFactor values at and above the floor, in hundredths: 1.3, 2.0, 2.5
EaseInputs == {130, 200, 250}

\* the cards of all decks, deck by deck, by value
AllCards(ds, hp) == [p \in 1..Len(DeckRefs(ds)) |-> hp[DeckRefs(ds)[p]]]

RECURSIVE TotalReviews(_)
TotalReviews(cards) ==
    IF cards = <<>> THEN 0 ELSE cards[1].repetitions + TotalReviews(Tail(cards))

SuccessfulReviews(cards) == Len(SelectSeq(cards, LAMBDA c : c.easeFactor > 200))

\* Math.round((successfulReviews / totalReviews) * 100), 0 when nothing was reviewed
RetentionRate(cards) ==
    IF TotalReviews(cards) > 0
    THEN Round(SuccessfulReviews(cards) * 100, TotalReviews(cards))
    ELSE 0

\* new Date(t).toDateString(): the day an instant (milliseconds) falls on
DayOf(t) == t \div 86400000

CardsStudiedToday(cards, at) ==
    Len(SelectSeq(cards, LAMBDA c : c.lastReviewed # Absent /\ DayOf(c.lastReviewed) = DayOf(at)))

\* renderDashboard(): the constructor, or switchView('dashboard-view')
renderDashboard ==
    /\ dashboard' = Dashboard(Len(decks), CardsStudiedToday(AllCards(decks, heap), now),
                              RetentionRate(AllCards(decks, heap)))
    /\ UNCHANGED <<appVars, pageVars, viewerVars, stack>>

\* a stored card whose scheduling fields some version of the application has written
StoredCard(easeFactor, repetitions) ==
    [id |-> 1, question |-> "Q", answer |-> "Q", createdAt |-> 1, nextReview |-> 1,
     interval |-> 0, easeFactor |-> easeFactor, repetitions |-> repetitions,
     lastReviewed |-> Absent, rated |-> FALSE]

StoredCards == {StoredCard(e, r) : e \in EaseInputs, r \in 0..MaxRepetitions}

CardLists(n) == UNION {[1..k -> StoredCards] : k \in 0..n}

StoredDeck(i, cards) ==
    [id |-> i, name |-> "Q", description |-> "", createdAt |-> 1, cards |-> cards]

\* what 'akson_decks' can hold: one or two decks of at most MaxCards cards in all
StoredDecks ==
    {<<StoredDeck(1, c)>> : c \in CardLists(MaxCards)}
       \cup {<<StoredDeck(1, c[1]), StoredDeck(2, c[2])>> :
                c \in {x \in CardLists(MaxCards) \X CardLists(MaxCards) :
                          Len(x[1]) + Len(x[2]) <= MaxCards}}

\* the application has been constructed over stored decks; its constructor has not
\* rendered the dashboard yet
DashboardInit ==
    /\ \E ds \in StoredDecks :
          /\ localStorage = Item(ds)
          /\ decks = loadDecks(Item(ds))
          /\ heap = loadHeap(Item(ds))
    /\ now = 1
    /\ currentStudySession = Null
    /\ currentCardIndex = 0
    /\ currentDeckId = NoId
    /\ currentView = "dashboard-view"
    /\ dom = InitialDom
    /\ thrown = "none"
    /\ PageClosed
    /\ ViewerClosed
    /\ stack = <<>>
    /\ dashboard = Dashboard(Absent, Absent, Absent)

NextDashboard == renderDashboard

SpecDashboard == DashboardInit /\ [][NextDashboard]_vars

NoReentry(st) == \A j, k \in 1..Len(st) : j # k => st[j].fn # st[k].fn

\* a call of startStudySession that found a deck with cards is about to return
StartReturns == stack # <<>> /\ Top.fn = "startStudySession" /\ Top.pc = 2

\* C29: startStudySession, switchView('study-view') and renderStudyView call one
\* another; for every deck and every session state the chain of calls ends (no
\* function is entered again while a call of it is under way, and every call
\* returns), and a successful startStudySession ends with the session cursor at 0
\* and the first card's question showing.
C29_CallChainTerminates ==
    /\ [][NoReentry(stack')]_vars
    /\ [][StartReturns /\ startStudySession_step
            => /\ currentStudySession' # Null
               /\ currentStudySession'.currentIndex = 0
               /\ dom'.questionText = heap'[currentStudySession'.cards[1]].question
               /\ dom'.answerContainer = "none"
               /\ dom'.ratingButtons = "none"
               /\ dom'.progressText = <<0, Len(currentStudySession'.cards)>>]_vars
    /\ (stack # <<>>) ~> (stack = <<>>)

\* startStudySession has replaced a session that was under way and its calls of
\* switchView and renderStudyView are both still open
C29_Witness ==
    /\ Len(stack) = 3
    /\ stack[1].fn = "startStudySession"
    /\ stack[3].fn = "renderStudyView"
    /\ currentStudySession # Null
    /\ Len(currentStudySession.cards) = MaxCards
    /\ dom.progressText = <<1, MaxCards>>

====
